---- MODULE Spec2Model ----
(***************************************************************************)
(* Account-management server actions of carrot-challenge: updateProfile,   *)
(* updatePassword and withdrawUser, with the zod schemas that validate     *)
(* their form data, over a user table with unique id, email and username   *)
(* and a cookie session per client.  Every `await` of a handler that       *)
(* touches the user table is one atomic step, so invocations interleave    *)
(* between their datastore calls.                                          *)
(*                                                                         *)
(* Strings are sequences of one-character strings, so that trimming,       *)
(* lower-casing, the e-mail shape, the digit pattern, hashing and URI      *)
(* encoding are computed and not assumed.                                  *)
(***************************************************************************)
EXTENDS Integers, Sequences, FiniteSets, TLC

\* ------------------------------------------------------------------ bounds
\* Total number of handler invocations started in one behaviour.
MaxInvocations == 2

\* The clients (browser tabs holding a session cookie) that invoke handlers.
Procs == {1, 2}

\* Ids of the user table; NoId is a session that carries no id.
UserIds == {1, 2}
NoId == 0

\* ------------------------------------------------------------ strings
Letters == {"a", "b", "c", "d", "e", "h", "i", "m", "o", "x", "y", "z", "A", "B"}
Digits == {"1", "2"}
AlNum == Letters \cup Digits

\* An optional value: FormData.get() of a missing field, `currentUser?.x`
\* of a missing record.
None == [some |-> FALSE, v |-> <<>>]
Some(s) == [some |-> TRUE, v |-> s]

\* String.prototype.trim
RECURSIVE TrimLeft(_)
TrimLeft(s) ==
    IF s # <<>> /\ Head(s) = " " THEN TrimLeft(Tail(s)) ELSE s

RECURSIVE TrimRight(_)
TrimRight(s) ==
    IF s # <<>> /\ s[Len(s)] = " " THEN TrimRight(SubSeq(s, 1, Len(s) - 1)) ELSE s

Trim(s) == TrimRight(TrimLeft(s))

\* String.prototype.toLowerCase
LowerChar(c) ==
    CASE c = "A" -> "a"
      [] c = "B" -> "b"
      [] OTHER -> c

ToLowerCase(s) == [i \in 1..Len(s) |-> LowerChar(s[i])]

\* zod's e-mail pattern:
\*   ^(?!\.)(?!.*\.\.)([A-Z0-9_'+\-\.]*)[A-Z0-9_+-]@([A-Z0-9][A-Z0-9\-]*\.)+[A-Z]{2,}$
\* (case-insensitive), over the characters of this model.
IsEmail(s) ==
    LET ats == {i \in 1..Len(s) : s[i] = "@"}
    IN  /\ Cardinality(ats) = 1
        /\ LET k == CHOOSE i \in ats : TRUE
               d == SubSeq(s, k + 1, Len(s))
               dots == {i \in 1..Len(d) : d[i] = "."}
           IN  /\ k > 1
               /\ s[1] # "."
               /\ \A i \in 1..(Len(s) - 1) : ~(s[i] = "." /\ s[i + 1] = ".")
               /\ \A i \in 1..(k - 1) : s[i] \in AlNum \cup {"_", "'", "+", "-", "."}
               /\ s[k - 1] \in AlNum \cup {"_", "+", "-"}
               /\ dots # {}
               /\ LET ld == CHOOSE i \in dots : \A j \in dots : j <= i
                  IN  /\ Len(d) - ld >= 2
                      /\ \A i \in (ld + 1)..Len(d) : d[i] \in Letters
                      /\ d[1] \in AlNum
                      /\ \A i \in 1..ld : d[i] \in AlNum \cup {"-", "."}
                      /\ \A i \in dots : i < ld => d[i + 1] \in AlNum

\* ACCOUNT_VALIDATION.PATTERNS.CONTAINS_NUMBER
ContainsNumber(s) == \E i \in 1..Len(s) : s[i] \in Digits

\* ACCOUNT_VALIDATION.MIN_LENGTH
USERNAME_MIN_LENGTH == 3
PASSWORD_MIN_LENGTH == 4

\* encodeURIComponent, over the characters of this model
EncodeChar(c) ==
    CASE c = " " -> <<"%", "2", "0">>
      [] c = "@" -> <<"%", "4", "0">>
      [] OTHER -> <<c>>

RECURSIVE EncodeURIComponent(_)
EncodeURIComponent(s) ==
    IF s = <<>> THEN <<>> ELSE EncodeChar(Head(s)) \o EncodeURIComponent(Tail(s))

\* bcrypt.hash(plain, 12): a digest that carries its salt.  The digest of a
\* plaintext under a salt is the salt followed by the marked plaintext.
Salts == {"s1"}
BcryptHash(plain, salt) == <<salt, "#">> \o plain

\* bcrypt.compare(plain, digest): re-hash under the digest's own salt.
BcryptCompare(plain, digest) == BcryptHash(plain, Head(digest)) = digest

\* ------------------------------------------------------------------ state
VARIABLES
    users,      \* the user table: id -> record (exists = FALSE: no such row)
    cookie,     \* the session each client's cookie carries: a user id or NoId
    pc,         \* where each client's current invocation stands
    handler,    \* the handler the client invoked
    form,       \* the FormData it submitted
    loc,        \* the invocation's local variables
    res,        \* the FormActionState it returned
    log,        \* the calls the invocation made on its collaborators, in order
    started     \* number of invocations started so far

vars == <<users, cookie, pc, handler, form, loc, res, log, started>>

NoUser == [exists |-> FALSE, email |-> <<>>, username |-> <<>>, bio |-> <<>>,
           password |-> <<>>]

\* FormActionState; `threw` marks an invocation that ended by an exception
\* leaving the handler instead of a returned value.
NoResult == [message |-> "", fieldErrors |-> {}, formErrors |-> <<>>, threw |-> FALSE]
Message(m) == [NoResult EXCEPT !.message = m]
\* ZodError.flatten(): issues with a path go under their field
Flatten(issues) == [NoResult EXCEPT !.fieldErrors = issues]
FieldErrors(field, m) == [NoResult EXCEPT !.fieldErrors = {<<field, m>>}]
FormErrors(m) == [NoResult EXCEPT !.formErrors = <<m>>]
Threw == [NoResult EXCEPT !.threw = TRUE]

NoForm == [email |-> None, username |-> None, bio |-> None,
           currentPassword |-> None, newPassword |-> None,
           confirmPassword |-> None, password |-> None]

\* curEmail and curUsername are the actor's row as it stands when validation
\* begins: what superRefine's read of the current user returns.
NoLoc == [userId |-> NoId, curEmail |-> None, curUsername |-> None,
          email |-> <<>>, username |-> <<>>, bio |-> <<>>, issues |-> {},
          oldUsername |-> None, newPassword |-> <<>>, hashed |-> <<>>]

\* The outcome of one step of an invocation: where it goes next, what it
\* has returned, its locals and the calls it made.
Outcome(nextPc, result, l, events) ==
    [pc |-> nextPc, res |-> result, loc |-> l, events |-> events]

Ev(op, arg, type) == [op |-> op, arg |-> arg, type |-> type]
IdArg(id) == <<ToString(id)>>

\* ------------------------------------------------------------ datastore
\* db.user.findUnique({ where: { id } })
FindById(id) == IF id \in UserIds /\ users[id].exists THEN users[id] ELSE NoUser

\* db.user.findUnique({ where: { username } }) / ({ where: { email } })
FindByUsername(u) == {i \in UserIds : users[i].exists /\ users[i].username = u}
FindByEmail(e) == {i \in UserIds : users[i].exists /\ users[i].email = e}

\* db.user.update({ where: { id }, data }): the row must exist and the
\* table's unique columns must stay unique, or the call raises.
CanUpdate(id, data) ==
    /\ id \in UserIds
    /\ users[id].exists
    /\ \A j \in UserIds \ {id} :
          users[j].exists =>
             /\ users[j].email # data.email
             /\ users[j].username # data.username

\* A delete that returns also when the row is absent, as deleteMany does
DeleteAny(id) == id \in UserIds

\* db.user.delete({ where: { id } }): raises when the row is absent
CanDelete(id) == id \in UserIds /\ users[id].exists

\* db.user.update({ where: { id }, data: { password } })
CanUpdatePassword(id) == id \in UserIds /\ users[id].exists

\* --------------------------------------------------------------- inputs
S(t) == Some(t)

EmailInputs ==
    { None,
      S(<<"a", "@", "x", ".", "c", "o">>),
      S(<<"B", "@", "x", ".", "c", "o">>),
      S(<<"a", "x">>) }

UsernameInputs ==
    { S(<<"b", "o", "b">>),
      S(<<"a", "m", "y", " ">>),
      S(<<"z", "e", "d">>),
      S(<<" ", " ", " ">>),
      S(<<"b", "o">>) }

BioInputs == { S(<<"h", "i">>) }

ProfileForms ==
    { [NoForm EXCEPT !.email = e, !.username = u, !.bio = b] :
        e \in EmailInputs, u \in UsernameInputs, b \in BioInputs }

\* The user table before any handler ran: two accounts, created elsewhere.
InitUsers ==
    (1 :> [exists |-> TRUE,
           email |-> <<"a", "@", "x", ".", "c", "o">>,
           username |-> <<"b", "o", "b">>,
           bio |-> <<>>,
           password |-> BcryptHash(<<"a", "a", "a", "1">>, "s0")])
    @@
    (2 :> [exists |-> TRUE,
           email |-> <<"b", "@", "x", ".", "c", "o">>,
           username |-> <<"a", "m", "y">>,
           bio |-> <<>>,
           password |-> BcryptHash(<<"b", "b", "b", "2">>, "s0")])

\* ------------------------------------------------- profileUpdateSchema
\* z.object({ email, username, bio }): every key is parsed; a key that is
\* not a string aborts the object, a failed check only marks it dirty.
ProfileAborted(f) == ~f.email.some \/ ~f.username.some

\* email: string().email().trim().toLowerCase(); username: string().min().trim()
\* zod applies checks and transforms in the order written, so the e-mail
\* shape and the minimum length are tested on the untrimmed input.
ProfileIssues(f) ==
    (IF ~f.email.some THEN {<<"email", "INVALID_TYPE">>}
     ELSE IF ~IsEmail(f.email.v) THEN {<<"email", "INVALID_FORMAT">>}
     ELSE {})
    \cup
    (IF ~f.username.some THEN {<<"username", "INVALID_TYPE">>}
     ELSE IF Len(f.username.v) < USERNAME_MIN_LENGTH THEN {<<"username", "TOO_SHORT">>}
     ELSE {})

\* The e-mail trimmed but not lower-cased.
ParsedEmailAsTyped(f) == Trim(f.email.v)

ParsedEmail(f) == ToLowerCase(Trim(f.email.v))
ParsedUsername(f) == Trim(f.username.v)
\* formData.get('bio')?.toString() || ''
ParsedBio(f) == IF f.bio.some THEN f.bio.v ELSE <<>>

\* The comparison with the current username left out: every username is
\* looked up.
UsernameAlwaysDiffers(l) == TRUE

\* superRefine: `username !== currentUser?.username`, `email !== currentUser?.email`
UsernameDiffers(l) == Some(l.username) # l.curUsername
EmailDiffers(l) == Some(l.email) # l.curEmail

\* result.success not tested: the handler goes on whatever the issues.
AfterRefineUnchecked(l, events) == Outcome("up_current", NoResult, l, events)

\* End of safeParseAsync in updateProfile, lines 121-125: issues make it
\* return result.error.flatten(); none lets it go on to getCurrentUsername.
AfterRefine(l, events) ==
    IF l.issues = {} THEN Outcome("up_current", NoResult, l, events)
    ELSE Outcome("done", Flatten(l.issues), l, events)

\* After the username branch of superRefine: the e-mail lookup, if needed.
AfterUsername(l, events) ==
    IF EmailDiffers(l) THEN Outcome("up_email", NoResult, l, events)
    ELSE AfterRefine(l, events)

\* After reading currentUser: the username lookup, if needed.
AfterCurrentUser(l, events) ==
    IF UsernameDiffers(l) THEN Outcome("up_username", NoResult, l, events)
    ELSE AfterUsername(l, events)

\* updateProfile, lines 112-121 and superRefine's read of the current user
\* (lines 37-41).  A raising read leaves safeParseAsync, and the handler,
\* by an exception: line 121 is outside the try block.
UpdateProfileStartOutcome(f, userId, raises) ==
    LET cur == FindById(userId)
        l0 == [NoLoc EXCEPT
                 !.userId = userId,
                 !.issues = ProfileIssues(f),
                 !.curEmail = IF cur.exists THEN Some(cur.email) ELSE None,
                 !.curUsername = IF cur.exists THEN Some(cur.username) ELSE None]
        find == <<Ev("findById", IdArg(userId), "")>>
    IN  IF ProfileAborted(f) THEN Outcome("done", Flatten(l0.issues), l0, <<>>)
        ELSE IF raises THEN Outcome("done", Threw, l0, find)
        ELSE AfterCurrentUser([l0 EXCEPT !.email = ParsedEmail(f),
                                         !.username = ParsedUsername(f),
                                         !.bio = ParsedBio(f)], find)

\* superRefine, lines 43-56: the lookup by the new username
UpdateProfileUsernameOutcome(l, raises) ==
    LET lookup == <<Ev("findByUsername", l.username, "")>>
    IN  IF raises THEN Outcome("done", Threw, l, lookup)
        ELSE IF FindByUsername(l.username) # {}
        THEN AfterUsername([l EXCEPT !.issues = @ \cup {<<"username", "DUPLICATE">>}], lookup)
        ELSE AfterUsername(l, lookup)

\* superRefine, lines 58-71: the lookup by the new e-mail
UpdateProfileEmailOutcome(l, raises) ==
    LET lookup == <<Ev("findByEmail", l.email, "")>>
    IN  IF raises THEN Outcome("done", Threw, l, lookup)
        ELSE IF FindByEmail(l.email) # {}
        THEN AfterRefine([l EXCEPT !.issues = @ \cup {<<"email", "DUPLICATE">>}], lookup)
        ELSE AfterRefine(l, lookup)

\* getCurrentUsername() of lib/user: the username of the session's user,
\* null when there is none.
GetCurrentUsername(id) ==
    IF FindById(id).exists THEN Some(FindById(id).username) ELSE None

\* updateProfile, line 128 (inside the try block)
UpdateProfileCurrentOutcome(l, raises) ==
    LET read == <<Ev("getCurrentUsername", IdArg(l.userId), "")>>
    IN  IF raises THEN Outcome("done", FormErrors("PROFILE_UPDATE_FAILED"), l, read)
        ELSE Outcome("up_update", NoResult,
                     [l EXCEPT !.oldUsername = GetCurrentUsername(l.userId)], read)

\* `if (oldUsername !== null)`: only null is skipped.
NotNull(o) == o.some

\* `if (oldUsername)`: null and the empty string are falsy
Truthy(o) == o.some /\ o.v # <<>>

ProfilePath(username) == <<"/users/">> \o EncodeURIComponent(username)

\* updateProfile, lines 142-156: the invalidations of a successful update
Invalidations(oldUsername, newUsername) ==
    <<Ev("revalidateTag", <<"user-profile">>, "")>>
    \o
    (IF oldUsername # Some(newUsername)
     THEN <<Ev("revalidatePath", <<"/">>, "layout")>>
          \o (IF Truthy(oldUsername)
              THEN <<Ev("revalidatePath", ProfilePath(oldUsername.v), "page")>>
              ELSE <<>>)
          \o <<Ev("revalidatePath", ProfilePath(newUsername), "page"),
               Ev("revalidatePath", <<"/tweets">>, "layout"),
               Ev("revalidatePath", <<"/search">>, "page")>>
     ELSE <<>>)

\* The row written by updateProfile's db.user.update, lines 131-140
\* The update's data also carries a password
ProfileRowWithPassword(row, l) ==
    [row EXCEPT !.email = l.email, !.username = l.username, !.bio = l.bio,
                !.password = BcryptHash(l.username, "s1")]

ProfileRow(row, l) ==
    [row EXCEPT !.email = l.email, !.username = l.username, !.bio = l.bio]

\* The profile tag invalidated before the update is attempted.
UpdateProfileUpdateTagFirst(l, ok) ==
    IF ok
    THEN Outcome("done", Message("PROFILE_UPDATED"), l,
                 <<Ev("update", IdArg(l.userId), "")>>
                 \o Invalidations(l.oldUsername, l.username))
    ELSE Outcome("done", FormErrors("PROFILE_UPDATE_FAILED"), l,
                 <<Ev("revalidateTag", <<"user-profile">>, ""),
                   Ev("update", IdArg(l.userId), "raised")>>)

\* A rejected update reported as a duplicate username.
UpdateProfileUpdateReportsDuplicate(l, ok) ==
    IF ok
    THEN Outcome("done", Message("PROFILE_UPDATED"), l,
                 <<Ev("update", IdArg(l.userId), "")>>
                 \o Invalidations(l.oldUsername, l.username))
    ELSE Outcome("done", FieldErrors("username", "DUPLICATE"), l,
                 <<Ev("update", IdArg(l.userId), "raised")>>)

\* updateProfile, lines 131-166: the update, the invalidations, the result;
\* `ok` is whether db.user.update returned.
UpdateProfileUpdateOutcome(l, ok) ==
    IF ok
    THEN Outcome("done", Message("PROFILE_UPDATED"), l,
                 <<Ev("update", IdArg(l.userId), "")>>
                 \o Invalidations(l.oldUsername, l.username))
    ELSE Outcome("done", FormErrors("PROFILE_UPDATE_FAILED"), l,
                 <<Ev("update", IdArg(l.userId), "raised")>>)

\* ------------------------------------------------ passwordUpdateSchema
CurrentPasswordInputs ==
    { None, S(<<"a", "a", "a", "1">>), S(<<"b", "b", "b", "2">>) }
NewPasswordInputs ==
    { S(<<"b", "b", "b", "2">>), S(<<"a", "b", "c", "d">>), S(<<"b", "2">>) }
ConfirmPasswordInputs ==
    { S(<<"b", "b", "b", "2">>), S(<<"a", "a", "a", "1">>) }

PasswordForm(c, n, k) ==
    [NoForm EXCEPT !.currentPassword = c, !.newPassword = n, !.confirmPassword = k]

\* Every current password with a well-formed new one, and every pair of
\* new and confirmation with one current password.
PasswordForms ==
    { PasswordForm(c, S(<<"b", "b", "b", "2">>), S(<<"b", "b", "b", "2">>)) :
        c \in CurrentPasswordInputs }
    \cup
    { PasswordForm(S(<<"a", "a", "a", "1">>), n, k) :
        n \in NewPasswordInputs, k \in ConfirmPasswordInputs }

PasswordAborted(f) ==
    ~f.currentPassword.some \/ ~f.newPassword.some \/ ~f.confirmPassword.some

\* The digit check of newPassword left out
PasswordKeyIssuesNoDigitCheck(f) ==
    (IF ~f.currentPassword.some THEN {<<"currentPassword", "INVALID_TYPE">>} ELSE {})
    \cup
    (IF ~f.newPassword.some THEN {<<"newPassword", "INVALID_TYPE">>}
     ELSE IF Len(f.newPassword.v) < PASSWORD_MIN_LENGTH
          THEN {<<"newPassword", "TOO_SHORT">>} ELSE {})
    \cup
    (IF ~f.confirmPassword.some THEN {<<"confirmPassword", "INVALID_TYPE">>}
     ELSE IF Len(f.confirmPassword.v) < PASSWORD_MIN_LENGTH
          THEN {<<"confirmPassword", "TOO_SHORT">>} ELSE {})

\* The issues of the object's keys, lines 75-99
PasswordKeyIssues(f) ==
    (IF ~f.currentPassword.some THEN {<<"currentPassword", "INVALID_TYPE">>} ELSE {})
    \cup
    (IF ~f.newPassword.some THEN {<<"newPassword", "INVALID_TYPE">>}
     ELSE (IF Len(f.newPassword.v) < PASSWORD_MIN_LENGTH
           THEN {<<"newPassword", "TOO_SHORT">>} ELSE {})
          \cup
          (IF ~ContainsNumber(f.newPassword.v)
           THEN {<<"newPassword", "NO_NUMBER">>} ELSE {}))
    \cup
    (IF ~f.confirmPassword.some THEN {<<"confirmPassword", "INVALID_TYPE">>}
     ELSE IF Len(f.confirmPassword.v) < PASSWORD_MIN_LENGTH
          THEN {<<"confirmPassword", "TOO_SHORT">>} ELSE {})

\* The refinement run only on an object whose keys raised no issue
PasswordIssuesRefineWhenClean(f) ==
    IF PasswordKeyIssues(f) # {} THEN PasswordKeyIssues(f)
    ELSE IF f.newPassword.v # f.confirmPassword.v
         THEN {<<"confirmPassword", "CONFIRM">>} ELSE {}

\* .refine(newPassword === confirmPassword), lines 100-106: runs unless a
\* key aborted the object, also when a check already failed.
PasswordIssues(f) ==
    PasswordKeyIssues(f)
    \cup
    (IF ~PasswordAborted(f) /\ f.newPassword.v # f.confirmPassword.v
     THEN {<<"confirmPassword", "CONFIRM">>} ELSE {})

CompareEv(matches) == Ev("compare", <<>>, IF matches THEN "match" ELSE "mismatch")

\* The result of the comparison ignored: the new hash is computed and the
\* update issued whatever the current password.
UpdatePasswordAuthorizeUnchecked(l, f, user, salt) ==
    Outcome("pw_update", NoResult,
            [l EXCEPT !.newPassword = f.newPassword.v,
                      !.hashed = BcryptHash(f.newPassword.v, salt)],
            <<Ev("findById", IdArg(l.userId), ""),
              CompareEv(BcryptCompare(f.currentPassword.v, user.password)),
              Ev("hash", <<>>, "")>>)

\* updatePassword, lines 193-206: the comparison with the stored hash and,
\* on a match, the hash of the new password.
UpdatePasswordAuthorize(l, f, user, salt) ==
    LET matches == BcryptCompare(f.currentPassword.v, user.password)
        find == Ev("findById", IdArg(l.userId), "")
    IN  IF ~matches
        THEN Outcome("done", FieldErrors("currentPassword", "MISMATCH"), l,
                     <<find, CompareEv(matches)>>)
        ELSE Outcome("pw_update", NoResult,
                     [l EXCEPT !.newPassword = f.newPassword.v,
                               !.hashed = BcryptHash(f.newPassword.v, salt)],
                     <<find, CompareEv(matches), Ev("hash", <<>>, "")>>)

\* updatePassword, lines 173-206: parse, read the stored hash, compare, hash.
\* The read and the comparison are outside the try block: a raising read,
\* and `user!.password` of a missing row, leave the handler by an exception.
UpdatePasswordStartOutcome(f, userId, raises, salt) ==
    LET user == FindById(userId)
        l0 == [NoLoc EXCEPT !.userId = userId, !.issues = PasswordIssues(f)]
        find == <<Ev("findById", IdArg(userId), "")>>
    IN  IF l0.issues # {} THEN Outcome("done", Flatten(l0.issues), l0, <<>>)
        ELSE IF raises \/ ~user.exists THEN Outcome("done", Threw, l0, find)
        ELSE UpdatePasswordAuthorize(l0, f, user, salt)

\* The new password stored as submitted, unhashed.
PasswordRowPlain(row, l) == [row EXCEPT !.password = l.newPassword]

\* The row written by updatePassword's db.user.update, lines 209-216
PasswordRow(row, l) == [row EXCEPT !.password = l.hashed]

\* The failure result returned also after the update was stored.
UpdatePasswordUpdateAlwaysFails(l, ok) ==
    Outcome("done", FormErrors("PASSWORD_UPDATE_FAILED"), l,
            <<Ev("update", IdArg(l.userId), IF ok THEN "" ELSE "raised")>>)

\* updatePassword, lines 208-226; `ok` is whether db.user.update returned.
UpdatePasswordUpdateOutcome(l, ok) ==
    IF ok
    THEN Outcome("done", Message("PASSWORD_UPDATED"), l,
                 <<Ev("update", IdArg(l.userId), "")>>)
    ELSE Outcome("done", FormErrors("PASSWORD_UPDATE_FAILED"), l,
                 <<Ev("update", IdArg(l.userId), "raised")>>)

\* ---------------------------------------------------------- withdrawUser
WithdrawPasswordInputs ==
    { None, S(<<>>), S(<<"a", "a", "a", "1">>), S(<<"b", "b", "b", "2">>) }

WithdrawForms == { [NoForm EXCEPT !.password = w] : w \in WithdrawPasswordInputs }

\* The result of the comparison ignored: the delete follows whatever the
\* password.
WithdrawUserStartUnchecked(f, userId, raises) ==
    LET user == FindById(userId)
        l0 == [NoLoc EXCEPT !.userId = userId]
        find == Ev("findById", IdArg(userId), "")
    IN  IF userId = NoId THEN Outcome("done", FormErrors("LOGIN_REQUIRED"), l0, <<>>)
        ELSE IF ~Truthy(f.password)
        THEN Outcome("done", FieldErrors("password", "REQUIRED"), l0, <<>>)
        ELSE IF raises THEN Outcome("done", FormErrors("WITHDRAW_FAILED"), l0, <<find>>)
        ELSE IF ~user.exists
        THEN Outcome("done", FormErrors("USER_NOT_FOUND"), l0, <<find>>)
        ELSE Outcome("wd_delete", NoResult, l0,
                     <<find, CompareEv(BcryptCompare(f.password.v, user.password))>>)

\* The session guard left out: the handler goes on with an undefined id.
WithdrawUserStartNoSessionGuard(f, userId, raises) ==
    LET user == FindById(userId)
        l0 == [NoLoc EXCEPT !.userId = userId]
        find == Ev("findById", IdArg(userId), "")
    IN  IF ~Truthy(f.password)
        THEN Outcome("done", FieldErrors("password", "REQUIRED"), l0, <<>>)
        ELSE IF raises THEN Outcome("done", FormErrors("WITHDRAW_FAILED"), l0, <<find>>)
        ELSE IF ~user.exists
        THEN Outcome("done", FormErrors("USER_NOT_FOUND"), l0, <<find>>)
        ELSE IF ~BcryptCompare(f.password.v, user.password)
        THEN Outcome("done", FieldErrors("password", "MISMATCH"), l0,
                     <<find, CompareEv(FALSE)>>)
        ELSE Outcome("wd_delete", NoResult, l0, <<find, CompareEv(TRUE)>>)

\* The password guard placed after the read of the row.
WithdrawUserStartReadsFirst(f, userId, raises) ==
    LET user == FindById(userId)
        l0 == [NoLoc EXCEPT !.userId = userId]
        find == Ev("findById", IdArg(userId), "")
    IN  IF userId = NoId THEN Outcome("done", FormErrors("LOGIN_REQUIRED"), l0, <<>>)
        ELSE IF raises THEN Outcome("done", FormErrors("WITHDRAW_FAILED"), l0, <<find>>)
        ELSE IF ~user.exists
        THEN Outcome("done", FormErrors("USER_NOT_FOUND"), l0, <<find>>)
        ELSE IF ~Truthy(f.password)
        THEN Outcome("done", FieldErrors("password", "REQUIRED"), l0, <<find>>)
        ELSE IF ~BcryptCompare(f.password.v, user.password)
        THEN Outcome("done", FieldErrors("password", "MISMATCH"), l0,
                     <<find, CompareEv(FALSE)>>)
        ELSE Outcome("wd_delete", NoResult, l0, <<find, CompareEv(TRUE)>>)

\* The missing row not tested: `user?.password ?? ''` is compared, and the
\* comparison fails.
WithdrawUserStartNoRowGuard(f, userId, raises) ==
    LET user == FindById(userId)
        l0 == [NoLoc EXCEPT !.userId = userId]
        find == Ev("findById", IdArg(userId), "")
    IN  IF userId = NoId THEN Outcome("done", FormErrors("LOGIN_REQUIRED"), l0, <<>>)
        ELSE IF ~Truthy(f.password)
        THEN Outcome("done", FieldErrors("password", "REQUIRED"), l0, <<>>)
        ELSE IF raises THEN Outcome("done", FormErrors("WITHDRAW_FAILED"), l0, <<find>>)
        ELSE IF ~user.exists \/ ~BcryptCompare(f.password.v, user.password)
        THEN Outcome("done", FieldErrors("password", "MISMATCH"), l0,
                     <<find, CompareEv(FALSE)>>)
        ELSE Outcome("wd_delete", NoResult, l0, <<find, CompareEv(TRUE)>>)

\* withdrawUser, lines 233-272: the session and password guards, the read
\* of the stored hash and the comparison.
WithdrawUserStartOutcome(f, userId, raises) ==
    LET user == FindById(userId)
        l0 == [NoLoc EXCEPT !.userId = userId]
        find == Ev("findById", IdArg(userId), "")
    IN  IF userId = NoId THEN Outcome("done", FormErrors("LOGIN_REQUIRED"), l0, <<>>)
        ELSE IF ~Truthy(f.password)
        THEN Outcome("done", FieldErrors("password", "REQUIRED"), l0, <<>>)
        ELSE IF raises THEN Outcome("done", FormErrors("WITHDRAW_FAILED"), l0, <<find>>)
        ELSE IF ~user.exists
        THEN Outcome("done", FormErrors("USER_NOT_FOUND"), l0, <<find>>)
        ELSE IF ~BcryptCompare(f.password.v, user.password)
        THEN Outcome("done", FieldErrors("password", "MISMATCH"), l0,
                     <<find, CompareEv(FALSE)>>)
        ELSE Outcome("wd_delete", NoResult, l0, <<find, CompareEv(TRUE)>>)

\* The delete's failure not caught: the handler goes on to session.destroy().
WithdrawUserDeleteUncaught(l, ok) ==
    Outcome("wd_destroy", NoResult, l,
            <<Ev("delete", IdArg(l.userId), IF ok THEN "" ELSE "raised")>>)

\* withdrawUser, lines 274-276 and the catch block; `ok` is whether
\* db.user.delete returned.
WithdrawUserDeleteOutcome(l, ok) ==
    IF ok
    THEN Outcome("wd_destroy", NoResult, l, <<Ev("delete", IdArg(l.userId), "")>>)
    ELSE Outcome("done", FormErrors("WITHDRAW_FAILED"), l,
                 <<Ev("delete", IdArg(l.userId), "raised")>>)

\* withdrawUser, lines 278-282
WithdrawUserDestroyOutcome(l) ==
    Outcome("done", Message("WITHDRAWN"), l, <<Ev("destroy", <<>>, "")>>)

\* -------------------------------------------------------------- actions
Idle(p) == pc[p] \in {"idle", "done"} /\ started < MaxInvocations

\* A client invokes handler h with form f: the invocation's first step.
Begin(p, h, f, o) ==
    /\ handler' = [handler EXCEPT ![p] = h]
    /\ form' = [form EXCEPT ![p] = f]
    /\ started' = started + 1
    /\ pc' = [pc EXCEPT ![p] = o.pc]
    /\ res' = [res EXCEPT ![p] = o.res]
    /\ loc' = [loc EXCEPT ![p] = o.loc]
    /\ log' = [log EXCEPT ![p] = o.events]

\* A later step of the invocation.
Continue(p, o) ==
    /\ pc' = [pc EXCEPT ![p] = o.pc]
    /\ res' = [res EXCEPT ![p] = o.res]
    /\ loc' = [loc EXCEPT ![p] = o.loc]
    /\ log' = [log EXCEPT ![p] = @ \o o.events]
    /\ UNCHANGED <<handler, form, started>>

\* Whether a datastore call of the form can raise a storage error: only a
\* step that reaches the datastore.
ProfileRaises(f) == IF ProfileAborted(f) THEN {FALSE} ELSE BOOLEAN
PasswordRaises(f) == IF PasswordIssues(f) # {} THEN {FALSE} ELSE BOOLEAN
WithdrawRaises(p, f) ==
    IF cookie[p] = NoId \/ ~Truthy(f.password) THEN {FALSE} ELSE BOOLEAN

UpdateProfileStart(p) ==
    /\ Idle(p)
    /\ \E f \in ProfileForms : \E raises \in ProfileRaises(f) :
          Begin(p, "updateProfile", f, UpdateProfileStartOutcome(f, cookie[p], raises))
    /\ UNCHANGED <<users, cookie>>

UpdateProfileUsername(p) ==
    /\ pc[p] = "up_username"
    /\ \E raises \in BOOLEAN : Continue(p, UpdateProfileUsernameOutcome(loc[p], raises))
    /\ UNCHANGED <<users, cookie>>

UpdateProfileEmail(p) ==
    /\ pc[p] = "up_email"
    /\ \E raises \in BOOLEAN : Continue(p, UpdateProfileEmailOutcome(loc[p], raises))
    /\ UNCHANGED <<users, cookie>>

UpdateProfileCurrent(p) ==
    /\ pc[p] = "up_current"
    /\ \E raises \in BOOLEAN : Continue(p, UpdateProfileCurrentOutcome(loc[p], raises))
    /\ UNCHANGED <<users, cookie>>

UpdateProfileUpdate(p) ==
    /\ pc[p] = "up_update"
    /\ \E raises \in BOOLEAN :
        LET ok == ~raises /\ CanUpdate(loc[p].userId, loc[p])
        IN  /\ Continue(p, UpdateProfileUpdateOutcome(loc[p], ok))
            /\ users' = IF ok THEN [users EXCEPT ![loc[p].userId] = ProfileRow(@, loc[p])]
                        ELSE users
    /\ UNCHANGED cookie

UpdatePasswordStart(p) ==
    /\ Idle(p)
    /\ \E f \in PasswordForms : \E raises \in PasswordRaises(f), salt \in Salts :
          Begin(p, "updatePassword", f,
                UpdatePasswordStartOutcome(f, cookie[p], raises, salt))
    /\ UNCHANGED <<users, cookie>>

UpdatePasswordUpdate(p) ==
    /\ pc[p] = "pw_update"
    /\ \E raises \in BOOLEAN :
        LET ok == ~raises /\ CanUpdatePassword(loc[p].userId)
        IN  /\ Continue(p, UpdatePasswordUpdateOutcome(loc[p], ok))
            /\ users' = IF ok THEN [users EXCEPT ![loc[p].userId] = PasswordRow(@, loc[p])]
                        ELSE users
    /\ UNCHANGED cookie

WithdrawUserStart(p) ==
    /\ Idle(p)
    /\ \E f \in WithdrawForms : \E raises \in WithdrawRaises(p, f) :
          Begin(p, "withdrawUser", f, WithdrawUserStartOutcome(f, cookie[p], raises))
    /\ UNCHANGED <<users, cookie>>

WithdrawUserDelete(p) ==
    /\ pc[p] = "wd_delete"
    /\ \E raises \in BOOLEAN :
        LET ok == ~raises /\ CanDelete(loc[p].userId)
        IN  /\ Continue(p, WithdrawUserDeleteOutcome(loc[p], ok))
            /\ users' = IF ok THEN [users EXCEPT ![loc[p].userId] = NoUser] ELSE users
    /\ UNCHANGED cookie

\* session.destroy() empties the session
WithdrawUserDestroy(p) ==
    /\ pc[p] = "wd_destroy"
    /\ Continue(p, WithdrawUserDestroyOutcome(loc[p]))
    /\ cookie' = [cookie EXCEPT ![p] = NoId]
    /\ UNCHANGED users

\* ------------------------------------------------------- specification
\* The sessions the clients hold when they start: logged in as different
\* users, as the same user, or one of them not logged in.
InitCookies == { (1 :> 1) @@ (2 :> 2), (1 :> 1) @@ (2 :> 1), (1 :> 1) @@ (2 :> NoId) }

Init ==
    /\ users = InitUsers
    /\ cookie \in InitCookies
    /\ pc = [p \in Procs |-> "idle"]
    /\ handler = [p \in Procs |-> "none"]
    /\ form = [p \in Procs |-> NoForm]
    /\ loc = [p \in Procs |-> NoLoc]
    /\ res = [p \in Procs |-> NoResult]
    /\ log = [p \in Procs |-> <<>>]
    /\ started = 0

Next ==
    \E p \in Procs :
        \/ UpdateProfileStart(p)
        \/ UpdateProfileUsername(p)
        \/ UpdateProfileEmail(p)
        \/ UpdateProfileCurrent(p)
        \/ UpdateProfileUpdate(p)
        \/ UpdatePasswordStart(p)
        \/ UpdatePasswordUpdate(p)
        \/ WithdrawUserStart(p)
        \/ WithdrawUserDelete(p)
        \/ WithdrawUserDestroy(p)

Spec == Init /\ [][Next]_vars

\* --------------------------------------------------------------- claims
Done(p) == pc[p] = "done"

\* The positions of the invocation's log that hold a call `op` of type `type`
EvIdx(p, op, type) ==
    {i \in DOMAIN log[p] : log[p][i].op = op /\ log[p][i].type = type}

\* Client p took the step
Stepped(p) ==
    <<pc[p], handler[p], form[p], loc[p], res[p], log[p]>>'
        # <<pc[p], handler[p], form[p], loc[p], res[p], log[p]>>

\* Client p began an invocation in the step
Began(p) == Stepped(p) /\ started' # started

\* C1: in withdrawUser, session.destroy() is only ever called after a
\* db.user.delete that returned; between the two the row is gone and the
\* session still carries the id; an invocation whose delete returned ends
\* with the row gone, the session destroyed and the success message; an
\* invocation whose delete raised never calls destroy, and its session
\* still carries the user id when it returns.
C1_DeleteThenDestroy ==
    \A p \in Procs :
        handler[p] = "withdrawUser" =>
            LET id == loc[p].userId
                deleted == EvIdx(p, "delete", "")
                raised == EvIdx(p, "delete", "raised")
                destroyed == EvIdx(p, "destroy", "")
            IN  /\ \A d \in destroyed : \E j \in deleted : j < d
                /\ pc[p] = "wd_destroy" =>
                      deleted # {} /\ ~users[id].exists /\ cookie[p] = id
                /\ Done(p) /\ deleted # {} =>
                      /\ destroyed # {}
                      /\ ~users[id].exists
                      /\ cookie[p] = NoId
                      /\ res[p] = Message("WITHDRAWN")
                /\ Done(p) /\ raised # {} =>
                      /\ destroyed = {}
                      /\ id # NoId /\ cookie[p] = id
                      /\ res[p].message = ""

\* One withdrawal completed while another's delete raised
C1_Witness ==
    \E p, q \in Procs :
        /\ handler[p] = "withdrawUser" /\ Done(p) /\ res[p] = Message("WITHDRAWN")
        /\ handler[q] = "withdrawUser" /\ Done(q)
        /\ EvIdx(q, "delete", "raised") # {}
        /\ cookie[q] = loc[q].userId

\* C2: when updatePassword's form is valid, the actor's row is read and the
\* supplied currentPassword does not verify against the stored hash, the
\* invocation ends in that step with the field error on currentPassword,
\* no hash computed, no update issued, and the user table and the sessions
\* as they were.
C2_MismatchNoMutation ==
    [][\A p \in Procs :
          ( /\ Began(p)
            /\ handler'[p] = "updatePassword"
            /\ PasswordIssues(form'[p]) = {}
            /\ FindById(cookie[p]).exists
            /\ ~BcryptCompare(form'[p].currentPassword.v, FindById(cookie[p]).password)
            /\ ~res'[p].threw )
          => /\ pc'[p] = "done"
             /\ res'[p] = FieldErrors("currentPassword", "MISMATCH")
             /\ \A i \in DOMAIN log'[p] : log'[p][i].op \notin {"hash", "update"}
             /\ users' = users
             /\ cookie' = cookie]_vars

C2_Witness ==
    \E p \in Procs :
        /\ handler[p] = "updatePassword" /\ Done(p)
        /\ res[p] = FieldErrors("currentPassword", "MISMATCH")
        /\ users[loc[p].userId].exists

\* C3: no two rows of the user table share an e-mail or a username; and an
\* updateProfile whose normalized e-mail (username) equals the one the
\* actor's row held when validation began never reports that field as a
\* duplicate.
C3_Unique ==
    /\ \A i, j \in UserIds :
          i # j /\ users[i].exists /\ users[j].exists =>
             /\ users[i].email # users[j].email
             /\ users[i].username # users[j].username
    /\ \A p \in Procs :
          handler[p] = "updateProfile" /\ ~ProfileAborted(form[p]) =>
             /\ Some(Trim(form[p].username.v)) = loc[p].curUsername =>
                   <<"username", "DUPLICATE">> \notin loc[p].issues \cup res[p].fieldErrors
             /\ Some(ToLowerCase(Trim(form[p].email.v))) = loc[p].curEmail =>
                   <<"email", "DUPLICATE">> \notin loc[p].issues \cup res[p].fieldErrors

\* An actor stored a profile that re-submits their own e-mail and username,
\* while another was refused a username that is taken.
C3_Witness ==
    \E p, q \in Procs :
        /\ handler[p] = "updateProfile" /\ Done(p)
        /\ res[p] = Message("PROFILE_UPDATED")
        /\ Some(Trim(form[p].username.v)) = loc[p].curUsername
        /\ Some(ToLowerCase(Trim(form[p].email.v))) = loc[p].curEmail
        /\ handler[q] = "updateProfile" /\ Done(q)
        /\ <<"username", "DUPLICATE">> \in res[q].fieldErrors

\* C4: in updatePassword and withdrawUser, a step that ends the invocation
\* without the success message changes neither the user table nor a
\* session; only the mutating steps (the update, the delete, the destroy)
\* change them; the update that changes the table ends with success, the
\* delete that changes it is followed by the destroy, and the destroy ends
\* with success: no invocation returns an error after one of its steps
\* changed anything.
C4_CommitOrNothing ==
    [][\A p \in Procs :
          Stepped(p) /\ handler'[p] \in {"updatePassword", "withdrawUser"} =>
             LET changed == users' # users \/ cookie' # cookie
                 id == loc'[p].userId
             IN  /\ pc'[p] = "done" /\ res'[p].message = "" => ~changed
                 /\ changed => pc[p] \in {"pw_update", "wd_delete", "wd_destroy"}
                 /\ changed /\ pc[p] = "pw_update" =>
                       /\ pc'[p] = "done"
                       /\ res'[p] = Message("PASSWORD_UPDATED")
                       /\ users'[id].password = loc[p].hashed
                 /\ changed /\ pc[p] = "wd_delete" =>
                       pc'[p] = "wd_destroy" /\ ~users'[id].exists
                 /\ pc[p] = "wd_destroy" =>
                       /\ pc'[p] = "done"
                       /\ res'[p] = Message("WITHDRAWN")
                       /\ ~users'[id].exists /\ cookie'[p] = NoId]_vars

\* A password update failed at its mutating step and a withdrawal committed
C4_Witness ==
    \E p, q \in Procs :
        /\ handler[p] = "updatePassword" /\ Done(p)
        /\ res[p] = FormErrors("PASSWORD_UPDATE_FAILED")
        /\ handler[q] = "withdrawUser" /\ Done(q)
        /\ res[q] = Message("WITHDRAWN")

\* The number of outcomes a FormActionState populates
Populated(r) ==
    (IF r.message # "" THEN 1 ELSE 0)
    + (IF r.fieldErrors # {} THEN 1 ELSE 0)
    + (IF r.formErrors # <<>> THEN 1 ELSE 0)

\* C5: every invocation ends by returning a FormActionState that populates
\* exactly one of message, fieldErrors and formErrors.
C5_ExactlyOneOutcome ==
    \A p \in Procs : Done(p) => ~res[p].threw /\ Populated(res[p]) = 1

Revalidations == {"revalidateTag", "revalidatePath"}

\* C6: an updateProfile whose validation ends with a failure (a field that
\* is not a string, an e-mail of a bad shape, a username too short, or a
\* duplicate found) returns in that step, with its issues as field errors
\* and nothing else, and it has issued no update, changed no row and
\* emitted no invalidation.
C6_InvalidProfileNoStorage ==
    [][\A p \in Procs :
          ( /\ Stepped(p)
            /\ handler'[p] = "updateProfile"
            /\ pc[p] \in {"idle", "done", "up_username", "up_email"}
            /\ pc'[p] \notin {"up_username", "up_email"}
            /\ ~res'[p].threw
            /\ LET f == form'[p]
               IN  \/ ~f.email.some \/ ~f.username.some
                   \/ ~IsEmail(f.email.v)
                   \/ Len(f.username.v) < USERNAME_MIN_LENGTH
                   \/ \E i \in loc'[p].issues : i[2] = "DUPLICATE" )
          => /\ pc'[p] = "done"
             /\ res'[p].fieldErrors # {}
             /\ res'[p] = Flatten(loc'[p].issues)
             /\ \A i \in DOMAIN log'[p] :
                   log'[p][i].op \notin Revalidations \cup {"update"}
             /\ users' = users
             /\ cookie' = cookie]_vars

\* One profile refused for its shape, another for a duplicate e-mail
C6_Witness ==
    \E p, q \in Procs :
        /\ handler[p] = "updateProfile" /\ Done(p)
        /\ {<<"email", "INVALID_FORMAT">>, <<"username", "TOO_SHORT">>}
              \subseteq res[p].fieldErrors
        /\ handler[q] = "updateProfile" /\ Done(q)
        /\ <<"email", "DUPLICATE">> \in res[q].fieldErrors

\* The lookups by `op` an invocation issued
Lookups(p, op) == {i \in DOMAIN log[p] : log[p][i].op = op}

\* updateProfile's validation is over (or was never entered)
ValidationOver(p) ==
    handler[p] = "updateProfile" /\ pc[p] \notin {"up_username", "up_email"}

\* The lookups issued for a field are none when the normalized value is
\* the stored one, and otherwise n of them, keyed by the normalized value
LookupsAre(p, op, normalized, stored, counts) ==
    IF Some(normalized) = stored
    THEN Lookups(p, op) = {}
    ELSE /\ Cardinality(Lookups(p, op)) \in counts
         /\ \A i \in Lookups(p, op) : log[p][i].arg = normalized

\* C7 as stated: for each of e-mail and username independently, no lookup
\* when the normalized submitted value equals the actor's stored value and
\* exactly one lookup, keyed by the normalized value, when it differs.
C7_OneLookupPerChangedField ==
    \A p \in Procs :
        ValidationOver(p) =>
           /\ form[p].email.some =>
                 LookupsAre(p, "findByEmail", ToLowerCase(Trim(form[p].email.v)),
                            loc[p].curEmail, {1})
           /\ form[p].username.some =>
                 LookupsAre(p, "findByUsername", Trim(form[p].username.v),
                            loc[p].curUsername, {1})

\* C7 as amended: no lookup for a field whose normalized value equals the
\* stored one; for a field that differs, at most one lookup, keyed by the
\* normalized value, and exactly one when the validation ran to its end
\* (both fields are strings and no datastore call of the validation raised).
C7_LookupsOfCompletedValidation ==
    \A p \in Procs :
        ValidationOver(p) =>
           LET counts == IF ProfileAborted(form[p]) \/ res[p].threw THEN {0, 1} ELSE {1}
           IN  /\ form[p].email.some =>
                     LookupsAre(p, "findByEmail", ToLowerCase(Trim(form[p].email.v)),
                                loc[p].curEmail, counts)
               /\ form[p].username.some =>
                     LookupsAre(p, "findByUsername", Trim(form[p].username.v),
                                loc[p].curUsername, counts)

\* The actor re-submits their username with another's e-mail in capitals:
\* one lookup, by the lower-cased e-mail, and none by username
C7_Witness ==
    \E p \in Procs :
        /\ ValidationOver(p) /\ Done(p) /\ ~res[p].threw
        /\ form[p].email = Some(<<"B", "@", "x", ".", "c", "o">>)
        /\ Some(Trim(form[p].username.v)) = loc[p].curUsername
        /\ Lookups(p, "findByUsername") = {}
        /\ \E i \in Lookups(p, "findByEmail") :
              log[p][i].arg = <<"b", "@", "x", ".", "c", "o">>

\* C8: a successful updateProfile emits its invalidations after its update
\* and none before, and they are exactly: the profile tag; and, when the
\* validated username differs from the one read before the update, the
\* site layout, the new profile page, the feed layout and the search page,
\* with the old profile page if and only if the old username is neither
\* null nor empty.
C8_Invalidations ==
    \A p \in Procs :
        handler[p] = "updateProfile" /\ Done(p) /\ res[p].message # "" =>
           LET old == loc[p].oldUsername
               new == loc[p].username
               updates == EvIdx(p, "update", "")
               emitted == {i \in DOMAIN log[p] : log[p][i].op \in Revalidations}
               expected ==
                   {Ev("revalidateTag", <<"user-profile">>, "")}
                   \cup
                   (IF old = Some(new) THEN {}
                    ELSE {Ev("revalidatePath", <<"/">>, "layout"),
                          Ev("revalidatePath", <<"/users/">> \o EncodeURIComponent(new), "page"),
                          Ev("revalidatePath", <<"/tweets">>, "layout"),
                          Ev("revalidatePath", <<"/search">>, "page")}
                         \cup
                         (IF old.some /\ old.v # <<>>
                          THEN {Ev("revalidatePath",
                                   <<"/users/">> \o EncodeURIComponent(old.v), "page")}
                          ELSE {}))
           IN  /\ Cardinality(updates) = 1
               /\ \A i \in emitted : \A u \in updates : u < i
               /\ {log[p][i] : i \in emitted} = expected
               /\ Cardinality(emitted) = Cardinality(expected)

\* A username was stored over an empty one, and another profile was stored
\* with its username unchanged
C8_Witness ==
    \E p, q \in Procs :
        /\ handler[p] = "updateProfile" /\ Done(p) /\ res[p].message # ""
        /\ loc[p].oldUsername = Some(<<>>) /\ loc[p].username # <<>>
        /\ handler[q] = "updateProfile" /\ Done(q) /\ res[q].message # ""

\* C9: an updateProfile whose update does not succeed returns the one
\* generic form error, with no field error, emits no invalidation, and
\* leaves the user table (the actor's e-mail, username and bio) as it was;
\* one whose update succeeds stores exactly the validated fields.
C9_ProfileStorageFailure ==
    [][\A p \in Procs :
          Stepped(p) /\ pc[p] = "up_update" =>
             LET id == loc[p].userId
             IN  \/ /\ res'[p] = Message("PROFILE_UPDATED")
                    /\ CanUpdate(id, loc[p])
                    /\ users' = [users EXCEPT ![id].email = loc[p].email,
                                              ![id].username = loc[p].username,
                                              ![id].bio = loc[p].bio]
                 \/ /\ res'[p] = FormErrors("PROFILE_UPDATE_FAILED")
                    /\ pc'[p] = "done"
                    /\ users' = users
                    /\ \A i \in DOMAIN log'[p] : log'[p][i].op \notin Revalidations]_vars

C9_Witness ==
    \E p \in Procs :
        /\ handler[p] = "updateProfile" /\ Done(p)
        /\ EvIdx(p, "update", "raised") # {}
        /\ res[p] = FormErrors("PROFILE_UPDATE_FAILED")
        /\ users[loc[p].userId].exists
        /\ users[loc[p].userId].username # loc[p].username

\* C10: the step in which updatePassword succeeds changes the actor's
\* stored password, to a digest that is not the plaintext and that verifies
\* newPassword, and nothing else: no other field, no other row, no session;
\* and the invocation emits no invalidation.
C10_PasswordSoleMutation ==
    [][\A p \in Procs :
          Stepped(p) /\ pc[p] = "pw_update" /\ res'[p].message # "" =>
             LET id == loc[p].userId
             IN  /\ res'[p] = Message("PASSWORD_UPDATED")
                 /\ users' = [users EXCEPT ![id].password = users'[id].password]
                 /\ users'[id].password # form[p].newPassword.v
                 /\ BcryptCompare(form[p].newPassword.v, users'[id].password)
                 /\ cookie' = cookie
                 /\ \A i \in DOMAIN log'[p] : log'[p][i].op \notin Revalidations]_vars

C10_Witness ==
    \E p \in Procs :
        /\ handler[p] = "updatePassword" /\ Done(p)
        /\ res[p] = Message("PASSWORD_UPDATED")
        /\ BcryptCompare(form[p].newPassword.v, users[loc[p].userId].password)

\* A password field that is a non-empty string
NonEmpty(o) == o.some /\ o.v # <<>>

\* C11: when withdrawUser is invoked with a session id and a non-empty
\* password, the actor's row is read and the password does not verify
\* against its stored hash, the invocation ends in that step with the
\* field error on password, having called neither delete nor destroy, and
\* the user table and the sessions are as they were.
C11_WithdrawMismatchNoMutation ==
    [][\A p \in Procs :
          ( /\ Began(p)
            /\ handler'[p] = "withdrawUser"
            /\ cookie[p] # NoId
            /\ NonEmpty(form'[p].password)
            /\ FindById(cookie[p]).exists
            /\ ~BcryptCompare(form'[p].password.v, FindById(cookie[p]).password)
            /\ res'[p].formErrors = <<>> )
          => /\ pc'[p] = "done"
             /\ res'[p] = FieldErrors("password", "MISMATCH")
             /\ \A i \in DOMAIN log'[p] : log'[p][i].op \notin {"delete", "destroy"}
             /\ users' = users
             /\ cookie' = cookie]_vars

C11_Witness ==
    \E p \in Procs :
        /\ handler[p] = "withdrawUser" /\ Done(p)
        /\ res[p] = FieldErrors("password", "MISMATCH")
        /\ users[loc[p].userId].exists
        /\ cookie[p] = loc[p].userId

\* C12: a withdrawUser whose session carries no user id has returned the
\* form-level login error, with no field error, and has made no call at
\* all: no read, no comparison, no delete, no destroy.
C12_WithdrawNoSession ==
    \A p \in Procs :
        handler[p] = "withdrawUser" /\ loc[p].userId = NoId =>
           /\ Done(p)
           /\ res[p] = FormErrors("LOGIN_REQUIRED")
           /\ res[p].fieldErrors = {}
           /\ log[p] = <<>>

\* A client without a session id submitted a password to withdrawUser
C12_Witness ==
    \E p \in Procs :
        /\ handler[p] = "withdrawUser" /\ Done(p)
        /\ loc[p].userId = NoId /\ cookie[p] = NoId
        /\ NonEmpty(form[p].password)
        /\ res[p].formErrors # <<>>

\* C13: a withdrawUser with a session id whose password field is missing
\* or empty has returned the field error on password and has made no call
\* at all: no read, no comparison, no delete, no destroy; its session
\* still carries the id.
C13_WithdrawEmptyPassword ==
    \A p \in Procs :
        ( /\ handler[p] = "withdrawUser"
          /\ loc[p].userId # NoId
          /\ ~NonEmpty(form[p].password) )
        => /\ Done(p)
           /\ res[p] = FieldErrors("password", "REQUIRED")
           /\ log[p] = <<>>
           /\ cookie[p] = loc[p].userId

\* The empty string was submitted as the password
C13_Witness ==
    \E p \in Procs :
        /\ handler[p] = "withdrawUser" /\ Done(p)
        /\ loc[p].userId # NoId
        /\ form[p].password = Some(<<>>)
        /\ <<"password", "REQUIRED">> \in res[p].fieldErrors

\* The fields that have an entry in a result's field errors
ErrorFields(r) == { e[1] : e \in r.fieldErrors }

\* No character of s is a digit
DigitFree(s) == \A i \in 1..Len(s) : s[i] \notin Digits

\* C14: an updatePassword whose newPassword is a string without a digit has
\* ended with a field error on newPassword and nothing else: no message, no
\* form error, and no call made, that is no read of the row, no comparison,
\* no hash and no update.
C14_NoDigitRejected ==
    \A p \in Procs :
        ( /\ handler[p] = "updatePassword"
          /\ form[p].newPassword.some
          /\ DigitFree(form[p].newPassword.v) )
        => /\ Done(p)
           /\ "newPassword" \in ErrorFields(res[p])
           /\ res[p].message = "" /\ res[p].formErrors = <<>> /\ ~res[p].threw
           /\ log[p] = <<>>

\* A new password of sufficient length without a digit was submitted, with
\* the right current password
C14_Witness ==
    \E p \in Procs :
        /\ handler[p] = "updatePassword" /\ Done(p)
        /\ form[p].newPassword = Some(<<"a", "b", "c", "d">>)
        /\ form[p].currentPassword.some
        /\ cookie[p] # NoId /\ users[cookie[p]].exists
        /\ BcryptCompare(form[p].currentPassword.v, users[cookie[p]].password)
        /\ <<"newPassword", "NO_NUMBER">> \in res[p].fieldErrors

\* C15 as stated: every updatePassword whose confirmPassword differs from
\* its newPassword has field errors on confirmPassword and on no other
\* field, no form error, and has made no call.
C15_ConfirmOnly ==
    \A p \in Procs :
        ( /\ handler[p] = "updatePassword"
          /\ form[p].newPassword # form[p].confirmPassword )
        => /\ Done(p)
           /\ ErrorFields(res[p]) = {"confirmPassword"}
           /\ res[p].message = "" /\ res[p].formErrors = <<>> /\ ~res[p].threw
           /\ log[p] = <<>>

\* C15: every updatePassword whose three fields are strings and whose
\* confirmPassword differs from its newPassword has a field error on
\* confirmPassword, none on currentPassword, and one on newPassword exactly
\* when newPassword is shorter than the minimum or has no digit; it has no
\* message and no form error and has made no call.
C15_ConfirmAmongFieldErrors ==
    \A p \in Procs :
        ( /\ handler[p] = "updatePassword"
          /\ form[p].currentPassword.some
          /\ form[p].newPassword.some
          /\ form[p].confirmPassword.some
          /\ form[p].newPassword.v # form[p].confirmPassword.v )
        => /\ Done(p)
           /\ <<"confirmPassword", "CONFIRM">> \in res[p].fieldErrors
           /\ "currentPassword" \notin ErrorFields(res[p])
           /\ "newPassword" \in ErrorFields(res[p])
                <=> \/ Len(form[p].newPassword.v) < PASSWORD_MIN_LENGTH
                    \/ DigitFree(form[p].newPassword.v)
           /\ res[p].message = "" /\ res[p].formErrors = <<>> /\ ~res[p].threw
           /\ log[p] = <<>>

\* A valid new password with another confirmation, and an invalid new
\* password with another confirmation
C15_Witness ==
    /\ \E p \in Procs :
        /\ handler[p] = "updatePassword" /\ Done(p)
        /\ form[p].newPassword.v # form[p].confirmPassword.v
        /\ ErrorFields(res[p]) = {"confirmPassword"}
    /\ \E q \in Procs :
        /\ handler[q] = "updatePassword" /\ Done(q)
        /\ form[q].newPassword.v # form[q].confirmPassword.v
        /\ ErrorFields(res[q]) = {"newPassword", "confirmPassword"}

\* Invocation p of updateProfile returned success and the row of its actor
\* holds what it stored
Persisted(p) ==
    /\ handler[p] = "updateProfile" /\ Done(p)
    /\ res[p] = Message("PROFILE_UPDATED")
    /\ users[loc[p].userId].exists
    /\ users[loc[p].userId].username = loc[p].username
    /\ users[loc[p].userId].email = loc[p].email

\* Invocations p and q of different actors claim the same username or the
\* same e-mail
SameClaim(p, q) ==
    /\ loc[p].userId # loc[q].userId
    /\ loc[p].username = loc[q].username \/ loc[p].email = loc[q].email

\* C16: when an updateProfile that has passed its validation comes to its
\* update after an updateProfile of another actor has stored the same
\* username or e-mail, the update is rejected: the invocation ends with the
\* generic form error and no field error, emits no invalidation and leaves
\* every row as it was, so the two are not both successful.
C16_RaceLoserRejected ==
    [][\A p, q \in Procs :
          ( /\ p # q
            /\ Persisted(p)
            /\ handler[q] = "updateProfile" /\ pc[q] = "up_update"
            /\ SameClaim(p, q)
            /\ Stepped(q) )
          => /\ pc'[q] = "done"
             /\ res'[q] = FormErrors("PROFILE_UPDATE_FAILED")
             /\ res'[q].fieldErrors = {}
             /\ \A i \in DOMAIN log'[q] : log'[q][i].op \notin Revalidations
             /\ users' = users
             /\ ~(Persisted(p)' /\ res'[q] = Message("PROFILE_UPDATED"))]_vars

\* Two updateProfile of different actors claimed the same username; both
\* looked it up and found it free; one has stored it and returned success
\* while the other, its validation passed, is about to issue its update.
C16_Witness ==
    \E p, q \in Procs :
        /\ p # q /\ Persisted(p)
        /\ handler[q] = "updateProfile" /\ pc[q] = "up_update"
        /\ loc[p].userId # loc[q].userId
        /\ loc[p].username = loc[q].username
        /\ Lookups(p, "findByUsername") # {} /\ Lookups(q, "findByUsername") # {}
        /\ loc[p].issues = {} /\ loc[q].issues = {}
        /\ users[loc[q].userId].exists
        /\ users[loc[q].userId].username # loc[q].username

\* C17: when withdrawUser is invoked with a session id and a non-empty
\* password, and the read of the actor's row returns and finds no row, the
\* invocation ends in that step with the form-level not-found error and no
\* field error, having called neither the comparison nor delete nor
\* destroy; the user table and the sessions are as they were.
C17_WithdrawRowAbsent ==
    [][\A p \in Procs :
          ( /\ Began(p)
            /\ handler'[p] = "withdrawUser"
            /\ cookie[p] # NoId
            /\ NonEmpty(form'[p].password)
            /\ ~FindById(cookie[p]).exists
            /\ res'[p] # FormErrors("WITHDRAW_FAILED") )
          => /\ pc'[p] = "done"
             /\ res'[p] = FormErrors("USER_NOT_FOUND")
             /\ res'[p].fieldErrors = {}
             /\ \A i \in DOMAIN log'[p] :
                   log'[p][i].op \notin {"compare", "delete", "destroy"}
             /\ users' = users
             /\ cookie' = cookie]_vars

\* The row was gone when a client whose session still carries the id
\* asked to withdraw
C17_Witness ==
    \E p \in Procs :
        /\ handler[p] = "withdrawUser" /\ Done(p)
        /\ res[p] = FormErrors("USER_NOT_FOUND")
        /\ cookie[p] = loc[p].userId /\ cookie[p] # NoId
        /\ ~users[cookie[p]].exists
        /\ NonEmpty(form[p].password)

\* C18: of two withdrawUser of the same actor, at most one delete has
\* returned and at most one invocation has the success message; once one
\* has deleted the row, the other, if it has ended without a failed
\* comparison, has a form-level error, which is not-found when it read
\* the row after the delete and the generic failure when its own delete
\* hit the deleted row, and it has not called destroy: its session still
\* carries the id.
C18_WithdrawOnce ==
    \A p, q \in Procs :
        ( /\ p # q
          /\ handler[p] = "withdrawUser" /\ handler[q] = "withdrawUser"
          /\ loc[p].userId = loc[q].userId /\ loc[p].userId # NoId )
        => /\ Cardinality(EvIdx(p, "delete", "")) + Cardinality(EvIdx(q, "delete", "")) <= 1
           /\ ~(res[p] = Message("WITHDRAWN") /\ res[q] = Message("WITHDRAWN"))
           /\ ( /\ EvIdx(p, "delete", "") # {}
                /\ Done(q)
                /\ NonEmpty(form[q].password)
                /\ EvIdx(q, "compare", "mismatch") = {} )
              => /\ ~users[loc[p].userId].exists
                 /\ res[q] \in {FormErrors("USER_NOT_FOUND"), FormErrors("WITHDRAW_FAILED")}
                 /\ EvIdx(q, "compare", "match") # {}
                      => /\ res[q] = FormErrors("WITHDRAW_FAILED")
                         /\ EvIdx(q, "delete", "raised") # {}
                 /\ res[q] = FormErrors("USER_NOT_FOUND")
                      => Lookups(q, "compare") = {} /\ Lookups(q, "delete") = {}
                 /\ Lookups(q, "destroy") = {}
                 /\ cookie[q] = loc[q].userId

\* Two clients of one actor both passed the comparison; one deleted the row
\* and ended with success, the delete of the other was refused
C18_Witness ==
    \E p, q \in Procs :
        /\ p # q
        /\ handler[p] = "withdrawUser" /\ handler[q] = "withdrawUser"
        /\ loc[p].userId = loc[q].userId /\ loc[p].userId # NoId
        /\ Done(p) /\ res[p] = Message("WITHDRAWN") /\ cookie[p] = NoId
        /\ Done(q) /\ EvIdx(q, "compare", "match") # {}
        /\ res[q] = FormErrors("WITHDRAW_FAILED")
        /\ ~users[loc[q].userId].exists

\* C19: a step of an invocation changes no row but the one whose id is in
\* the invoking client's session; a step of updateProfile neither changes
\* a password nor removes a row; a step of an invocation whose session has
\* no id changes nothing of the user table.
C19_OwnRowOnly ==
    [][\A p \in Procs :
          Stepped(p) =>
             /\ loc'[p].userId = cookie[p]
             /\ \A i \in UserIds : i # cookie[p] => users'[i] = users[i]
             /\ handler'[p] = "updateProfile" =>
                   \A i \in UserIds : /\ users'[i].password = users[i].password
                                      /\ users'[i].exists = users[i].exists
             /\ cookie[p] = NoId => users' = users]_vars

\* One actor changed its profile: its row differs from the initial one but
\* for the password, the other actor's row is the initial one; the other
\* client, without a session id, has ended an invocation.
C19_Witness ==
    \E p, q \in Procs :
        /\ p # q /\ Persisted(p)
        /\ users[loc[p].userId].username # InitUsers[loc[p].userId].username
        /\ users[loc[p].userId].password = InitUsers[loc[p].userId].password
        /\ \E j \in UserIds \ {loc[p].userId} : users[j] = InitUsers[j]
        /\ handler[q] # "none" /\ Done(q) /\ loc[q].userId = NoId

====
